---- MODULE Spec2Model ----
(***************************************************************************)
(* Shader hot-reload pipeline of skuggbox: ShaderService (new, watch, run, *)
(* reload, create_shaders) in src/src/shader/service.rs, driven by the     *)
(* frame loop of App::run in src/src/app.rs, with the watcher thread       *)
(* spawned by watch() and the files on disk as the environment.            *)
(***************************************************************************)
EXTENDS Integers, Sequences, FiniteSets, TLC

\* ------------------------------------------------------------------ bounds
\* Largest number of times a file is saved while the program runs.
MaxEdits == 2

\* ------------------------------------------------------------- the files
\* The root shader files, and Lib, the one file a root may include.
Lib == "lib.glsl"
RootFiles == {"a.frag", "b.frag"}
Files == {Lib} \cup RootFiles
\* The roots that may hold an include of Lib.
Includers == {"a.frag"}

\* What a file can hold: "bad" does not compile, the others are two
\* different sources that do.
Contents == {"bad", "v1", "v2"}

\* Option<T>: None, or Some(v) as the record [some |-> v].
None == [none |-> TRUE]
Some(v) == [some |-> v]
IsSome(o) == "some" \in DOMAIN o

\* Result<T, E>: Ok(v) as [ok |-> v], Err(e) as [err |-> e].
Ok(v) == [ok |-> v]
Err(e) == [err |-> e]
IsOk(r) == "ok" \in DOMAIN r
IsErr(r) == "err" \in DOMAIN r

\* The argument of ShaderService::new: config.files, a non-empty Vec of paths.
ShaderFileInputs == { <<"a.frag">>, <<"a.frag", "b.frag">> }

VARIABLES
    \* the environment: the files on disk
    disk,                   \* disk[f]: the content of file f
    inc,                    \* inc[r]: root r holds an include of Lib
    edits,                  \* number of saves so far
    \* ShaderService's fields (service.rs:74-85)
    skuggbox_shaders,       \* Option<Vec<SkuggboxShader>>
    initial_shader_files,   \* Vec<PathBuf>
    all_shader_files,       \* Vec<PathBuf>
    use_camera_integration, \* bool
    receiver,               \* Option<Receiver<PathBuf>>: TRUE when Some
    last_error,             \* the field App::run reads (app.rs:57)
    \* the channel and the watcher thread
    chan,                   \* notifications sent and not yet received
    wstate,                 \* "unspawned", "running" or "exited"
    watched,                \* the files handed to watch_all
    pending,                \* changes the watcher has seen and not yet sent
    \* the render thread
    pc,                     \* where App::run is
    shader_error,           \* app_state.shader_error
    is_running,             \* app_state.is_running
    in_loop,                \* FALSE until the while loop of App::run is entered
    uniform_writes,         \* the uniforms render() wrote in this frame
    \* history
    last_reload,            \* how the last reload() ended: "none", "err", "ok",
                            \* or "recovered" for an "ok" that followed an "err"
    last_poll,              \* what the last try_recv of run() gave: "none",
                            \* "empty" or "notified"
    run_log,                \* what run() logged for its last reload(): "none",
                            \* "info" (the Ok arm) or "error" (the Err arm)
    reloading               \* number of reload() calls in progress

envVars == <<disk, inc, edits>>
serviceVars == <<skuggbox_shaders, initial_shader_files, all_shader_files,
                 use_camera_integration, receiver, last_error>>
watcherVars == <<chan, wstate, watched, pending>>
renderVars == <<pc, shader_error, is_running, in_loop, uniform_writes>>
histVars == <<last_reload, last_poll, run_log, reloading>>
vars == <<envVars, serviceVars, watcherVars, renderVars, histVars>>

\* ------------------------------------------------- preprocess and compile
\* find_included_files(path): the files path includes, None when there are none.
find_included_files(path) ==
    IF path \in RootFiles /\ inc[path] THEN Some(<<Lib>>) ELSE None

\* A path followed by the files it includes (service.rs:54-57 and 92-95).
WithIncludes(path) ==
    <<path>> \o (IF IsSome(find_included_files(path))
                 THEN find_included_files(path).some ELSE <<>>)

\* A preprocessor that keeps the text it expanded for path the last time, when
\* the compiled set holds one, instead of reading the files again.
PreProcessCached(path, use_cam) ==
    IF IsSome(skuggbox_shaders)
       /\ \E i \in 1..Len(skuggbox_shaders.some) :
             skuggbox_shaders.some[i].path = path
    THEN LET i == CHOOSE k \in 1..Len(skuggbox_shaders.some) :
                     skuggbox_shaders.some[k].path = path
         IN [skuggbox_shaders.some[i].pre_processor EXCEPT !.cam = use_cam]
    ELSE [root |-> disk[path],
          included |-> IF inc[path] THEN <<disk[Lib]>> ELSE <<>>,
          cam |-> use_cam]

\* PreProcessor::new(path) + reload(): the root's text with its include inlined,
\* under the camera-integration flag.
PreProcess(path, use_cam) ==
    [root |-> disk[path],
     included |-> IF inc[path] THEN <<disk[Lib]>> ELSE <<>>,
     cam |-> use_cam]

\* ShaderProgram::from_frag_src(src): Ok exactly when the whole text compiles.
from_frag_src_ok(src) ==
    /\ src.root # "bad"
    /\ \A i \in 1..Len(src.included) : src.included[i] # "bad"

\* The uniforms a text declares and uses, so that the linked program keeps
\* them active.
Declares(text) ==
    IF text = "v1" THEN {"iResolution", "iTime"}
    ELSE IF text = "v2" THEN {"iTime", "iTimeDelta", "iMouse"}
    ELSE {}

\* The active uniforms of the program compiled from src.
ActiveUniforms(src) ==
    Declares(src.root)
        \cup UNION { Declares(src.included[i]) : i \in 1..Len(src.included) }

\* get_uniform_location(program, uniform_name), lines 26-28: the location of
\* an active uniform, and GL's "no such uniform" (-1) as None.
get_uniform_location(program, uniform_name) ==
    IF uniform_name \in ActiveUniforms(program) THEN Some(uniform_name) ELSE None

\* get_uniform_locations(program), lines 30-37.
get_uniform_locations(program) ==
    [resolution |-> get_uniform_location(program, "iResolution"),
     time       |-> get_uniform_location(program, "iTime"),
     time_delta |-> get_uniform_location(program, "iTimeDelta"),
     mouse      |-> get_uniform_location(program, "iMouse")]

\* A closure body that leaves the preprocessor's camera flag at its default.
BuildShaderNoCam(path, use_cam) ==
    [path |-> path,
     pre_processor |-> PreProcess(path, FALSE),
     files |-> WithIncludes(path),
     locations |-> get_uniform_locations(PreProcess(path, FALSE))]

\* The body of the closure of create_shaders for one path, when it is Ok.
BuildShader(path, use_cam) ==
    [path |-> path,
     pre_processor |-> PreProcess(path, use_cam),
     files |-> WithIncludes(path),
     locations |-> get_uniform_locations(PreProcess(path, use_cam))]

\* A create_shaders that skips the paths that fail and keeps the others.
RECURSIVE create_shaders_partial(_, _)
create_shaders_partial(shader_files, use_cam) ==
    IF shader_files = <<>> THEN Ok(<<>>)
    ELSE LET path == Head(shader_files)
             rest == create_shaders_partial(Tail(shader_files), use_cam)
         IN IF ~from_frag_src_ok(PreProcess(path, use_cam))
            THEN rest
            ELSE Ok(<<BuildShader(path, use_cam)>> \o rest.ok)

\* A create_shaders that collects the shaders last path first.
RECURSIVE create_shaders_reversed(_, _)
create_shaders_reversed(shader_files, use_cam) ==
    IF shader_files = <<>> THEN Ok(<<>>)
    ELSE LET path == Head(shader_files) IN
         IF ~from_frag_src_ok(PreProcess(path, use_cam))
         THEN Err(path)
         ELSE LET rest == create_shaders_reversed(Tail(shader_files), use_cam) IN
              IF IsOk(rest)
              THEN Ok(rest.ok \o <<BuildShader(path, use_cam)>>)
              ELSE rest

\* create_shaders(shader_files, use_cam_integration): map every path to its
\* shader and collect into a Result: the first Err ends the collect with that
\* Err, otherwise Ok(all the shaders, in the order of the paths).
RECURSIVE create_shaders(_, _)
create_shaders(shader_files, use_cam) ==
    IF shader_files = <<>> THEN Ok(<<>>)
    ELSE LET path == Head(shader_files) IN
         IF ~from_frag_src_ok(PreProcess(path, use_cam))
         THEN Err(path)
         ELSE LET rest == create_shaders(Tail(shader_files), use_cam) IN
              IF IsOk(rest)
              THEN Ok(<<BuildShader(path, use_cam)>> \o rest.ok)
              ELSE rest

\* The first loop of ShaderService::new: every path followed by its includes.
RECURSIVE CollectFiles(_)
CollectFiles(paths) ==
    IF paths = <<>> THEN <<>>
    ELSE WithIncludes(Head(paths)) \o CollectFiles(Tail(paths))

Range(s) == { s[i] : i \in 1..Len(s) }

\* -------------------------------------------------------------------- Init
\* The program starts in App::run at the call of ShaderService::new, with some
\* files on disk.
Init ==
    /\ disk \in [Files -> {"bad", "v1"}]
    /\ inc \in [RootFiles -> BOOLEAN]
    /\ \A r \in RootFiles \ Includers : ~inc[r]
    /\ edits = 0
    /\ skuggbox_shaders = None
    /\ initial_shader_files \in ShaderFileInputs
    /\ all_shader_files = <<>>
    /\ use_camera_integration = FALSE
    /\ receiver = FALSE
    /\ last_error = None
    /\ chan = <<>>
    /\ wstate = "unspawned"
    /\ watched = {}
    /\ pending = {}
    /\ pc = "new"
    /\ shader_error = None
    /\ is_running = TRUE
    /\ in_loop = FALSE
    /\ uniform_writes = {}
    /\ last_reload = "none"
    /\ last_poll = "none"
    /\ run_log = "none"
    /\ reloading = 0

\* ------------------------------------------------------- the render thread
\* The compiled set new() stores, lines 99-104: Some(shaders) when
\* create_shaders gave Ok, None otherwise.
NewSet(r) == IF IsOk(r) THEN Some(r.ok) ELSE None

\* ShaderService::new: collect every path and its includes, build the shaders
\* with the camera flag unset, and return Ok(Self) either way.
New ==
    /\ pc = "new"
    /\ all_shader_files' = CollectFiles(initial_shader_files)
    /\ skuggbox_shaders' = NewSet(create_shaders(initial_shader_files, FALSE))
    /\ use_camera_integration' = FALSE
    /\ receiver' = FALSE
    /\ pc' = "watch"
    /\ UNCHANGED <<envVars, initial_shader_files, last_error, watcherVars,
                   shader_error, is_running, in_loop, uniform_writes,
                   histVars>>

\* ShaderService::watch: create the channel, keep the receiver, spawn the
\* watcher thread on a clone of all_shader_files, and return.
Watch ==
    /\ pc = "watch"
    /\ receiver' = TRUE
    /\ chan' = <<>>
    /\ watched' = Range(all_shader_files)
    /\ wstate' = "running"
    /\ pending' = {}
    /\ pc' = "run"
    /\ UNCHANGED <<envVars, skuggbox_shaders, initial_shader_files,
                   all_shader_files, use_camera_integration, last_error,
                   shader_error, is_running, in_loop, uniform_writes,
                   histVars>>

\* Where run() returns to: line 50 after the call of line 48, line 57 after the
\* call of line 56.
AfterRun == IF in_loop THEN "read_error" ELSE "loop"

\* recv.try_recv().is_ok(), line 130: a notification is queued (whether or not
\* the sender is still alive); Empty and Disconnected are both Err. It never
\* waits.
TryRecvOk(ch) == Len(ch) > 0

\* A run() that reloads on every call, notified or not.
RunAlwaysReloads ==
    /\ pc = "run"
    /\ chan' = IF receiver /\ TryRecvOk(chan) THEN Tail(chan) ELSE chan
    /\ pc' = "reload"
    /\ last_poll' = IF receiver /\ TryRecvOk(chan) THEN "notified" ELSE "empty"
    /\ reloading' = reloading + 1
    /\ UNCHANGED <<envVars, serviceVars, wstate, watched, pending,
                   shader_error, is_running, in_loop, uniform_writes,
                   last_reload, run_log>>

\* A run() that waits for a notification with recv() instead of try_recv().
RunBlocking ==
    /\ pc = "run"
    /\ receiver
    /\ Len(chan) > 0
    /\ chan' = Tail(chan)
    /\ pc' = "reload"
    /\ last_poll' = "notified"
    /\ reloading' = reloading + 1
    /\ UNCHANGED <<envVars, serviceVars, wstate, watched, pending,
                   shader_error, is_running, in_loop, uniform_writes,
                   last_reload, run_log>>

\* A run() that empties the channel and reloads once for all it took.
RunDrains ==
    /\ pc = "run"
    /\ IF receiver /\ TryRecvOk(chan)
       THEN /\ chan' = <<>>
            /\ pc' = "reload"
            /\ last_poll' = "notified"
            /\ reloading' = reloading + 1
       ELSE /\ pc' = AfterRun
            /\ last_poll' = "empty"
            /\ UNCHANGED <<chan, reloading>>
    /\ UNCHANGED <<envVars, serviceVars, wstate, watched, pending,
                   shader_error, is_running, in_loop, uniform_writes,
                   last_reload, run_log>>

\* A run() that gives up its receiver when try_recv reports Disconnected.
RunDropsReceiver ==
    /\ pc = "run"
    /\ IF receiver /\ TryRecvOk(chan)
       THEN /\ chan' = Tail(chan)
            /\ pc' = "reload"
            /\ last_poll' = "notified"
            /\ reloading' = reloading + 1
            /\ UNCHANGED receiver
       ELSE /\ pc' = AfterRun
            /\ last_poll' = "empty"
            /\ receiver' = (receiver /\ wstate # "exited")
            /\ UNCHANGED <<chan, reloading>>
    /\ UNCHANGED <<envVars, skuggbox_shaders, initial_shader_files,
                   all_shader_files, use_camera_integration, last_error,
                   wstate, watched, pending,
                   shader_error, is_running, in_loop, uniform_writes,
                   last_reload, run_log>>

\* ShaderService::run up to the call of reload(), lines 129-131: with a
\* receiver whose try_recv is Ok, take the notification and call reload();
\* otherwise return at once.
Run ==
    /\ pc = "run"
    /\ IF receiver /\ TryRecvOk(chan)
       THEN /\ chan' = Tail(chan)
            /\ pc' = "reload"
            /\ last_poll' = "notified"
            /\ reloading' = reloading + 1
       ELSE /\ pc' = AfterRun
            /\ last_poll' = "empty"
            /\ UNCHANGED <<chan, reloading>>
    /\ UNCHANGED <<envVars, serviceVars, wstate, watched, pending,
                   shader_error, is_running, in_loop, uniform_writes,
                   last_reload, run_log>>

\* A reload that drops the compiled set when create_shaders fails.
ReloadSetClear(r, old) == IF IsOk(r) THEN Some(r.ok) ELSE None

\* A reload that never installs what it built.
ReloadSetStale(r, old) == old

\* A reload that adds what it built to the compiled set it had.
ReloadSetAppend(r, old) ==
    IF IsErr(r) THEN old
    ELSE IF IsSome(old) THEN Some(old.some \o r.ok) ELSE Some(r.ok)

\* The compiled set reload() leaves, lines 144-147: the new one when
\* create_shaders gave Ok, the one it had otherwise.
ReloadSet(r, old) == IF IsOk(r) THEN Some(r.ok) ELSE old

\* What reload() returns, line 149: Ok(()) whatever create_shaders returned.
ReloadReturn(r) == Ok(<<>>)

\* The arm of the match in run(), lines 131-136.
RunLog(ret) == IF IsOk(ret) THEN "info" ELSE "error"

\* A reload that hands the files of the set it built to the running watcher.
ReloadRewatches ==
    /\ pc = "reload"
    /\ LET r == create_shaders(initial_shader_files, use_camera_integration)
       IN /\ skuggbox_shaders' = ReloadSet(r, skuggbox_shaders)
          /\ last_reload' = IF IsErr(r) THEN "err"
                            ELSE IF last_reload = "err" THEN "recovered"
                            ELSE "ok"
          /\ run_log' = RunLog(ReloadReturn(r))
          /\ watched' = IF IsOk(r) /\ wstate = "running"
                        THEN Range(CollectFiles(initial_shader_files))
                        ELSE watched
    /\ reloading' = reloading - 1
    /\ pc' = AfterRun
    /\ UNCHANGED <<envVars, initial_shader_files, all_shader_files,
                   use_camera_integration, receiver, last_error,
                   chan, wstate, pending,
                   shader_error, is_running, in_loop, uniform_writes,
                   last_poll>>

\* ShaderService::reload, lines 142-150, and the rest of run, lines 131-138:
\* rebuild every original root path under the current flag; reload returns
\* Ok(()) whatever create_shaders returned, and touches no other field.
Reload ==
    /\ pc = "reload"
    /\ LET r == create_shaders(initial_shader_files, use_camera_integration)
       IN /\ skuggbox_shaders' = ReloadSet(r, skuggbox_shaders)
          /\ last_reload' = IF IsErr(r) THEN "err"
                            ELSE IF last_reload = "err" THEN "recovered"
                            ELSE "ok"
          /\ run_log' = RunLog(ReloadReturn(r))
    /\ reloading' = reloading - 1
    /\ pc' = AfterRun
    /\ UNCHANGED <<envVars, initial_shader_files, all_shader_files,
                   use_camera_integration, receiver, last_error, watcherVars,
                   shader_error, is_running, in_loop, uniform_writes,
                   last_poll>>

\* App::run, line 55: the loop test.
Loop ==
    /\ pc = "loop"
    /\ pc' = IF is_running THEN "run" ELSE "done"
    /\ in_loop' = TRUE
    /\ uniform_writes' = {}
    /\ UNCHANGED <<envVars, serviceVars, watcherVars, shader_error,
                   is_running, histVars>>

\* App::run, lines 57-62: copy the service's last_error into the app state.
ReadError ==
    /\ pc = "read_error"
    /\ shader_error' = last_error
    /\ pc' = "events"
    /\ UNCHANGED <<envVars, serviceVars, watcherVars, is_running, in_loop,
                   uniform_writes, histVars>>

\* App::run, lines 70-128: the UI shows shader_error; handle_events may end the
\* loop, handle_actions may flip the camera-integration flag.
Events(quit, toggle) ==
    /\ pc = "events"
    /\ is_running' = (is_running /\ ~quit)
    /\ use_camera_integration' = (use_camera_integration # toggle)
    /\ pc' = "render"
    /\ UNCHANGED <<envVars, skuggbox_shaders, initial_shader_files,
                   all_shader_files, receiver, last_error, watcherVars,
                   shader_error, in_loop, uniform_writes, histVars>>

\* The location fields render() reads, app.rs:162-185.
UniformFields ==
    {"resolution", "time", "time_delta", "mouse", "sb_camera_transform"}

\* The location of the camera transform: the uniform the preprocessor declares
\* when the text was expanded with camera integration on.
camera_location(shader) ==
    IF shader.pre_processor.cam THEN Some("sb_camera_transform") ELSE None

\* shader.locations.<field> as render() reads it: the field ShaderLocations
\* holds, and the camera transform's location for the one field
\* get_uniform_locations does not fill.
LocationOf(shader, field) ==
    IF field \in DOMAIN shader.locations THEN shader.locations[field]
    ELSE camera_location(shader)

\* shader_service.shaders.get(0), app.rs:157: the first compiled shader.
FirstShader ==
    IF IsSome(skuggbox_shaders) /\ Len(skuggbox_shaders.some) >= 1
    THEN Some(skuggbox_shaders.some[1]) ELSE None

\* A render() that sets every uniform of the first shader without looking at
\* its locations.
RenderWritesAll ==
    /\ pc = "render"
    /\ pc' = "loop"
    /\ uniform_writes' = IF IsSome(FirstShader) THEN UniformFields ELSE {}
    /\ UNCHANGED <<envVars, serviceVars, watcherVars, shader_error,
                   is_running, in_loop, histVars>>

\* render(), lines 144-201: reads the service, writes nothing to it; with a
\* shader at index 0 it sets each uniform whose location is Some.
Render ==
    /\ pc = "render"
    /\ pc' = "loop"
    /\ uniform_writes' =
          IF IsSome(FirstShader)
          THEN { f \in UniformFields :
                     IsSome(LocationOf(FirstShader.some, f)) }
          ELSE {}
    /\ UNCHANGED <<envVars, serviceVars, watcherVars, shader_error,
                   is_running, in_loop, histVars>>

RenderNext ==
    \/ New
    \/ Watch
    \/ Run
    \/ Reload
    \/ Loop
    \/ ReadError
    \/ \E quit \in BOOLEAN, toggle \in BOOLEAN : Events(quit, toggle)
    \/ Render

\* ------------------------------------------- the disk and the watcher thread
\* Somebody saves file f with content c (and, for a root that may include Lib,
\* with or without the include); a running watcher that was started on f sees
\* the change.
Edit(f, c, i) ==
    /\ pc # "done"
    /\ edits < MaxEdits
    /\ edits' = edits + 1
    /\ disk' = [disk EXCEPT ![f] = c]
    /\ inc' = IF f \in Includers THEN [inc EXCEPT ![f] = i] ELSE inc
    /\ pending' = IF wstate = "running" /\ f \in watched
                  THEN pending \cup {f} ELSE pending
    /\ UNCHANGED <<serviceVars, chan, wstate, watched, renderVars, histVars>>

\* A watcher thread that rebuilds the compiled set itself when it sees a change.
WatcherSendReloads(f) ==
    /\ pc # "done"
    /\ wstate = "running"
    /\ f \in pending
    /\ chan' = Append(chan, f)
    /\ pending' = pending \ {f}
    /\ skuggbox_shaders' =
          ReloadSet(create_shaders(initial_shader_files, use_camera_integration),
                    skuggbox_shaders)
    /\ UNCHANGED <<envVars, initial_shader_files, all_shader_files,
                   use_camera_integration, receiver, last_error, wstate,
                   watched, renderVars, histVars>>

\* glsl_watcher::watch_all(sender, files): send the path of a changed file.
WatcherSend(f) ==
    /\ pc # "done"
    /\ wstate = "running"
    /\ f \in pending
    /\ chan' = Append(chan, f)
    /\ pending' = pending \ {f}
    /\ UNCHANGED <<envVars, serviceVars, wstate, watched, renderVars, histVars>>

\* The watcher thread ends and drops its sender.
WatcherExit ==
    /\ pc # "done"
    /\ wstate = "running"
    /\ wstate' = "exited"
    /\ pending' = {}
    /\ UNCHANGED <<envVars, serviceVars, chan, watched, renderVars, histVars>>

WatcherNext ==
    \/ \E f \in Files : WatcherSend(f)
    \/ WatcherExit

EnvNext ==
    \E f \in Files, c \in Contents, i \in BOOLEAN : Edit(f, c, i)

Next ==
    \/ RenderNext
    \/ WatcherNext
    \/ EnvNext

Spec == Init /\ [][Next]_vars

\* The render thread keeps running its loop and the watcher thread sends what
\* it has seen; nothing is assumed about when files change or about the
\* watcher staying alive.
WatcherSendAny == \E f \in Files : WatcherSend(f)

\* The program started on the two-shader batch, with a valid Lib on disk.
LiveInit ==
    /\ Init
    /\ initial_shader_files = <<"a.frag", "b.frag">>
    /\ disk[Lib] = "v1"

FairSpec ==
    /\ LiveInit
    /\ [][Next]_vars
    /\ WF_vars(RenderNext)
    /\ WF_vars(WatcherSendAny)

\* ============================================================ the properties
\* Root path p resolves and compiles with what is on disk now.
Compiles(p) == disk[p] # "bad" /\ (inc[p] => disk[Lib] # "bad")

AllCompile ==
    \A i \in 1..Len(initial_shader_files) : Compiles(initial_shader_files[i])

\* Compiled set s holds one shader per original root path, in order, each built
\* from what is on disk now.
BuiltFromDisk(s) ==
    /\ Len(s) = Len(initial_shader_files)
    /\ \A i \in 1..Len(s) :
         LET p == initial_shader_files[i] IN
         /\ s[i].path = p
         /\ s[i].pre_processor.root = disk[p]
         /\ s[i].pre_processor.included = (IF inc[p] THEN <<disk[Lib]>> ELSE <<>>)

\* This step is the body of a reload() call.
ReloadStep == pc = "reload" /\ pc' # "reload"

\* This step is the body of ShaderService::new.
NewStep == pc = "new" /\ pc' # "new"

LastReloadOk == last_reload \in {"ok", "recovered"}

\* C1: a reload() in which some original root path fails to resolve or compile
\* leaves the compiled set exactly as it was before the call, whatever the
\* size of the batch.
C1_FailedReloadKeepsSet ==
    [][(ReloadStep /\ ~AllCompile) => skuggbox_shaders' = skuggbox_shaders]_vars

\* A two-shader batch with a compiled set, whose last reload failed with one
\* root compiling and the other not.
C1_Witness ==
    /\ last_reload = "err"
    /\ pc \in {"loop", "read_error"}
    /\ IsSome(skuggbox_shaders)
    /\ Len(initial_shader_files) = 2
    /\ \E i, j \in 1..2 : /\ Compiles(initial_shader_files[i])
                          /\ ~Compiles(initial_shader_files[j])

\* C2: after a reload() that failed, last_error is set, and so is the value
\* the frame loop copies from the service in the same frame.
C2_FailedReloadSetsLastError ==
    /\ (last_reload = "err" /\ pc \in {"loop", "read_error"}) => IsSome(last_error)
    /\ (last_reload = "err" /\ pc = "events") => IsSome(shader_error)

C5_NewKeepsCompilingShaders ==
    [][NewStep =>
         /\ pc' = "watch"
         /\ \A i \in 1..Len(initial_shader_files) :
              Compiles(initial_shader_files[i]) =>
                /\ IsSome(skuggbox_shaders')
                /\ \E j \in 1..Len(skuggbox_shaders'.some) :
                     skuggbox_shaders'.some[j].path = initial_shader_files[i]]_vars

\* C5 amended: new() always constructs the service; when any root of the batch
\* fails the compiled set is absent as a whole, and otherwise it holds one
\* shader per root built from the disk.
C5_NewIsAllOrNothing ==
    [][NewStep =>
         /\ pc' = "watch"
         /\ IF AllCompile
            THEN /\ IsSome(skuggbox_shaders')
                 /\ BuiltFromDisk(skuggbox_shaders'.some)
            ELSE skuggbox_shaders' = None]_vars

\* new() has just returned for a two-shader batch in which one root compiles
\* and the other does not: the service exists and its compiled set is absent.
C5_Witness ==
    /\ pc = "watch"
    /\ edits = 0
    /\ Len(initial_shader_files) = 2
    /\ \E i, j \in 1..2 : /\ Compiles(initial_shader_files[i])
                          /\ ~Compiles(initial_shader_files[j])
    /\ skuggbox_shaders = None

\* C6: after every reload(), all_shader_files is the union of the dependency
\* files (root plus includes) of the roots this reload attempted, as they are
\* on disk at the reload.
C6_ReloadRecomputesWatchedFiles ==
    [][ReloadStep =>
         Range(all_shader_files') = Range(CollectFiles(initial_shader_files))]_vars

\* C7: run() enters reload() exactly when it has a receiver and its try_recv
\* gave a notification, which it removes; otherwise it returns with the
\* service and the channel unchanged. A reload is entered in no other way, so
\* a failed reload is not retried without a new notification.
C7_ReloadOnlyOnNotification ==
    [][/\ (pc = "run" /\ pc' # "run") =>
            IF receiver /\ Len(chan) > 0
            THEN pc' = "reload" /\ chan' = Tail(chan)
            ELSE pc' # "reload" /\ UNCHANGED <<serviceVars, chan>>
       /\ (pc # "reload" /\ pc' = "reload") =>
            (pc = "run" /\ Len(chan) > 0 /\ chan' = Tail(chan))]_vars

\* A frame's run() found nothing to receive after a reload had failed, and
\* returned without reloading.
C7_Witness ==
    /\ pc = "read_error"
    /\ last_poll = "empty"
    /\ last_reload = "err"
    /\ ~AllCompile

\* C8: the render thread never waits: wherever it is before the loop ends, its
\* next step can be taken at once, whatever the watcher thread is doing and
\* whatever the channel holds.
C8_RenderNeverWaits == (pc # "done") => ENABLED RenderNext

\* run() has returned in a frame in which the watcher thread is alive, has
\* seen no change and has sent nothing.
C8_Witness ==
    /\ pc = "read_error"
    /\ last_poll = "empty"
    /\ wstate = "running"
    /\ pending = {}
    /\ chan = <<>>

\* The compiled set and the last reload agree with what is on disk now.
ReflectsDisk ==
    IF AllCompile
    THEN IsSome(skuggbox_shaders) /\ BuiltFromDisk(skuggbox_shaders.some)
    ELSE last_reload = "err"

\* C9: once the watcher has seen a change of a watched file (or has already
\* sent its notification), a reload follows that reads what is then on disk,
\* so that a valid source becomes the compiled set; unless the loop ends or
\* the watcher thread dies before sending.
C9_ChangeLeadsToFreshReload ==
    (pending # {} \/ chan # <<>>)
        ~> (ReflectsDisk \/ pc = "done" \/ (wstate = "exited" /\ chan = <<>>))

\* A notified reload has installed a source that was saved while the program
\* ran, and no change is left unseen or unsent.
C9_Witness ==
    /\ pc = "read_error"
    /\ last_poll = "notified"
    /\ LastReloadOk
    /\ IsSome(skuggbox_shaders)
    /\ BuiltFromDisk(skuggbox_shaders.some)
    /\ skuggbox_shaders.some[1].pre_processor.root = "v2"
    /\ pending = {}
    /\ chan = <<>>

\* C10: after construction the compiled set changes only in the reload() step
\* of the render thread; a step of the watcher thread changes only the channel
\* and the watcher's own state; and at most one reload() is in progress.
C10_OnlyRenderThreadReloads ==
    [][/\ (skuggbox_shaders' # skuggbox_shaders) => (NewStep \/ ReloadStep)
       /\ (chan' # chan /\ Len(chan') > Len(chan)) =>
            UNCHANGED <<serviceVars, renderVars, envVars>>
       /\ (wstate = "running" /\ wstate' = "exited") =>
            UNCHANGED <<serviceVars, renderVars, envVars>>
       /\ reloading' \in {0, 1}
       /\ (reloading' = 1) <=> (pc' = "reload")]_vars

\* A reload() is in progress while the watcher thread is alive and has a
\* change to send.
C10_Witness ==
    /\ pc = "reload"
    /\ reloading = 1
    /\ wstate = "running"
    /\ pending # {}

\* Every entry of compiled set s was preprocessed under flag value b.
AllBuiltWith(s, b) == \A i \in 1..Len(s) : s[i].pre_processor.cam = b

\* C11: new() builds every shader with the camera-integration flag unset, and
\* a reload() that installs a compiled set built every original root path with
\* the value use_camera_integration had when reload() was called.
C11_BuiltWithFlagAtCall ==
    [][/\ (NewStep /\ IsSome(skuggbox_shaders')) =>
            /\ AllBuiltWith(skuggbox_shaders'.some, FALSE)
            /\ use_camera_integration' = FALSE
       /\ (ReloadStep /\ AllCompile) =>
            /\ IsSome(skuggbox_shaders')
            /\ Len(skuggbox_shaders'.some) = Len(initial_shader_files)
            /\ AllBuiltWith(skuggbox_shaders'.some, use_camera_integration)]_vars

\* A reload has just installed a two-shader set built with the flag set.
C11_Witness ==
    /\ pc = "read_error"
    /\ last_poll = "notified"
    /\ LastReloadOk
    /\ use_camera_integration
    /\ IsSome(skuggbox_shaders)
    /\ Len(skuggbox_shaders.some) = 2
    /\ AllBuiltWith(skuggbox_shaders.some, TRUE)

\* C12: when a reload() failed, run() took the Err arm of its match, that is,
\* reload() returned the failure to its caller.
C12_FailedReloadTakesErrArm ==
    (last_reload = "err" /\ pc \in {"loop", "read_error"}) => run_log = "error"

\* C13: the paths of a running watcher are the service's dependency-file list
\* as it was when watch() was called, and no later step changes them.
C13_WatcherKeepsItsSnapshot ==
    [][/\ (pc = "watch" /\ pc' # "watch") =>
            watched' = Range(all_shader_files)
       /\ (wstate # "unspawned") => watched' = watched]_vars

\* A reload has succeeded under a running watcher whose paths are no longer
\* the files the compiled set was built from.
C13_Witness ==
    /\ pc = "read_error"
    /\ last_poll = "notified"
    /\ LastReloadOk
    /\ wstate = "running"
    /\ watched = Range(all_shader_files)
    /\ watched # Range(CollectFiles(initial_shader_files))

\* The compiled set is present and was built from exactly what the roots and
\* their includes hold on disk now, under the flag the service has now.
SetMatchesDisk ==
    /\ IsSome(skuggbox_shaders)
    /\ BuiltFromDisk(skuggbox_shaders.some)
    /\ AllBuiltWith(skuggbox_shaders.some, use_camera_integration)

\* What one more reload() would leave as the compiled set in this state.
SetAfterReload ==
    ReloadSet(create_shaders(initial_shader_files, use_camera_integration),
              skuggbox_shaders)

RenderStep == pc = "render" /\ pc' # "render"

\* C15: a frame writes a uniform only when the shader at index 0 of the
\* compiled set has a location for it; a missing location stops nothing, the
\* frame ends as any other; and without a shader at index 0 the frame writes
\* no uniform at all.
C15_WritesOnlyPresentUniforms ==
    [][RenderStep =>
         /\ \A f \in uniform_writes' :
               /\ IsSome(FirstShader)
               /\ IsSome(LocationOf(FirstShader.some, f))
         /\ (~IsSome(FirstShader)) => uniform_writes' = {}
         /\ pc' = "loop"
         /\ UNCHANGED serviceVars]_vars

\* A frame has written the uniforms its shader has and left out one it lacks.
C15_Witness ==
    /\ pc = "loop"
    /\ in_loop
    /\ IsSome(FirstShader)
    /\ "time" \in uniform_writes
    /\ "sb_camera_transform" \in uniform_writes
    /\ "mouse" \notin uniform_writes
    /\ ~IsSome(LocationOf(FirstShader.some, "mouse"))

\* C16: in every reachable state the compiled set is absent or holds exactly
\* one shader per original root path, entry i built from root path i.
C16_OneShaderPerRootInOrder ==
    IsSome(skuggbox_shaders) =>
        /\ Len(skuggbox_shaders.some) = Len(initial_shader_files)
        /\ \A i \in 1..Len(initial_shader_files) :
              skuggbox_shaders.some[i].path = initial_shader_files[i]

\* A two-shader set installed by a reload, and kept by a failed one since.
C16_Witness ==
    /\ Len(initial_shader_files) = 2
    /\ IsSome(skuggbox_shaders)
    /\ skuggbox_shaders.some[1].path = "a.frag"
    /\ skuggbox_shaders.some[2].path = "b.frag"
    /\ skuggbox_shaders.some[2].pre_processor.root = "v2"
    /\ last_reload = "err"

\* C17: a compiled set that is present stays present in every later state; a
\* set that is absent stays absent across a reload() in which some root fails,
\* and becomes present in the first reload() in which every root resolves and
\* compiles.
C17_PresentStaysPresent ==
    [][/\ IsSome(skuggbox_shaders) => IsSome(skuggbox_shaders')
       /\ (ReloadStep /\ ~IsSome(skuggbox_shaders)) =>
            (IsSome(skuggbox_shaders') <=> AllCompile)
       /\ (~IsSome(skuggbox_shaders) /\ IsSome(skuggbox_shaders')) =>
            (NewStep \/ ReloadStep)]_vars

\* new() built no set, and a reload that failed has left it absent.
C17_Witness ==
    /\ pc = "read_error"
    /\ last_poll = "notified"
    /\ last_reload = "err"
    /\ ~IsSome(skuggbox_shaders)

\* This step is the part of run() that polls the channel.
RunStep == pc = "run" /\ pc' # "run"

\* s is t without its first n elements.
IsSuffixFrom(s, t, n) ==
    /\ Len(t) >= n
    /\ Len(s) = Len(t) - n
    /\ \A i \in 1..Len(s) : s[i] = t[i + n]

\* C18: a call of run() takes at most one notification, the oldest, and calls
\* reload() at most once, exactly when it took one; what stays queued stays
\* in order for the calls of run() of the next frames, and no other step
\* takes anything from the channel.
C18_OneNotificationPerRun ==
    [][/\ RunStep =>
            /\ IsSuffixFrom(chan', chan, IF pc' = "reload" THEN 1 ELSE 0)
            /\ (chan # <<>> /\ receiver) => pc' = "reload"
            /\ reloading' <= 1
       /\ ReloadStep => (chan' = chan /\ pc' # "run")
       /\ (pc # "run") =>
            /\ Len(chan') >= Len(chan)
            /\ \A i \in 1..Len(chan) : chan'[i] = chan[i]]_vars

\* Every save has been notified, one call of run() has taken one notification
\* and its reload is in progress with the other still in the channel.
C18_Witness ==
    /\ pc = "reload"
    /\ last_poll = "notified"
    /\ Len(chan) = 1
    /\ pending = {}
    /\ edits = MaxEdits

\* C19: once the watcher thread has exited and the channel is empty, a call
\* of run() calls no reload, changes no field of the service and logs
\* nothing, and the frame goes on with the compiled set it had; what was
\* queued before the exit is still received.
C19_DisconnectedIsEmpty ==
    [][/\ (RunStep /\ wstate = "exited" /\ chan = <<>>) =>
            /\ pc' = AfterRun
            /\ UNCHANGED <<serviceVars, chan, run_log, last_reload, reloading,
                           shader_error, is_running>>
       /\ (RunStep /\ wstate = "exited" /\ chan # <<>>) =>
            (pc' = "reload" /\ chan' = Tail(chan))]_vars

\* A frame whose run() found the channel of an exited watcher empty, after
\* an earlier reload, is reading the service with its set in place.
C19_Witness ==
    /\ pc = "read_error"
    /\ last_poll = "empty"
    /\ wstate = "exited"
    /\ chan = <<>>
    /\ LastReloadOk
    /\ IsSome(skuggbox_shaders)

====
